---------------------------- MODULE Spec2Model ----------------------------
(***************************************************************************)
(* PocketLink: delivery of a shortlink by the background service worker    *)
(* (src/extension/background.js), the offscreen document's message         *)
(* listener (src/extension/offscreen.js and src/unnamed/part_000) and the  *)
(* host facilities they call.                                              *)
(*                                                                         *)
(* JavaScript runs every handler to its next await without interruption,   *)
(* so one action of the model is one such run: from the resolution of an   *)
(* awaited host call to the issue of the next one.  The service worker     *)
(* issues its host calls one after another and the browser serves them in  *)
(* that order, so a call's effect on the host is part of the run that      *)
(* issues it; the run that follows its resolution is a later action.       *)
(***************************************************************************)
EXTENDS Naturals, Sequences, FiniteSets

\* Context-menu triggers the model lets the user make in one behaviour.
MaxClicks == 2

\* Teardowns of the service worker the model lets happen in one behaviour.
MaxRestarts == 1

\* Two handler slots: at most two deliveries are in progress at a time.
Procs == {"d1", "d2"}

\* The links the Bitly API may answer with.
Links == {"bit.ly/a", "bit.ly/b"}

\* Chrome releases: below 109 (no chrome.offscreen), 109-115 (offscreen, no
\* runtime.getContexts), 116 and later (both).
HostVersions == {"pre109", "v109", "v116"}

\* The two offscreen.js files of the repository.
OffscreenScripts == {"extension", "part_000"}

VARIABLES
  hostVersion,               \* the Chrome release the extension runs on
  offscreenScript,           \* which offscreen.js the offscreen document loads
  sync,                      \* chrome.storage.sync: the stored settings
  localStore,                \* chrome.storage.local: key currentShortlink
  stored,                    \* the delivery's storage.local.set has resolved
  writes,                    \* storage.local.set calls that have resolved so far
  popup,                     \* the popup pages: position, what was read and shown
  docs,                      \* offscreen documents that exist, by creating delivery
  offscreenDocumentCreated,  \* the module flag of background.js
  clipboard,                 \* the system clipboard's text
  clicks,                    \* context-menu triggers so far
  pc,                        \* each handler's awaited call
  settings,                  \* each handler's settings object
  shortUrl,                  \* each handler's shortUrl
  createdContext,            \* copyViaOffscreen's createdContext
  failed,                    \* whether copyViaOffscreen's try block threw
  writing,                   \* a clipboard write pending in the offscreen document
  attempts,                  \* the delivery's attempts: <<mode, result>> records
  threw,                     \* handleShortlink rejected to its caller
  notes,                     \* notifications the trigger created
  optionsOpened,             \* the trigger opened the options page
  windows,                   \* popup windows the delivery opened
  wrote,                     \* the delivery's clipboard write took place
  ensureRet,                 \* what ensureOffscreenDocument returned
  observedNone,              \* the existence check found no document
  createCalls,               \* createDocument calls the delivery made
  closeCalls,                \* closeDocument calls the delivery made
  closeResult,               \* how the delivery's closeDocument call ended
  seqState,                  \* monitor: ensure calls in immediate sequence
  seqSecond,                 \* monitor: what the second call of a pair returned
  restarts,                  \* teardowns of the service worker so far
  leaked,                    \* monitor: the document has lost its owner
  response                   \* what the delivery's sendMessage call settled with

vars == <<hostVersion, offscreenScript, sync, localStore, stored, writes, popup,
          docs,
          offscreenDocumentCreated, clipboard, clicks, pc, settings, shortUrl,
          createdContext, failed, writing, attempts, threw, notes,
          optionsOpened, windows, wrote, ensureRet, observedNone, createCalls,
          closeCalls, closeResult, seqState, seqSecond, restarts,
          leaked, response>>

None == "none"

\* The popup pages: the window each delivery opens, and popup.html opened by
\* the user ("direct popup usage").
Pages == Procs \cup {"user"}

\* How a runtime.sendMessage call settles: with the responder's
\* {success: true} or {success: false, error} for the text it was asked to
\* write, with undefined (no response), or by rejecting (no receiving end).
Response(kind, text) == [kind |-> kind, text |-> text]
NoResponseYet == Response(None, None)

\* A popup page that is not open.  pc: the call popup.js or the background's
\* createShortlinkFromPopup handler awaits; read, readNo: what
\* storage.local.get returned and which write stored it; sent: requests the
\* page sent; answers: sendResponse calls for its request; resp: what its
\* sendMessage call settled with; shown: the text showSuccess displayed, or
\* "error" for showError.
PopupClosed ==
  [pc |-> "closed", read |-> None, readNo |-> 0, sent |-> 0, answers |-> 0,
   resp |-> NoResponseYet, shown |-> None]

---------------------------------------------------------------------------
(* Settings *)

SettingKeys == {"bitlyToken", "interactionMode", "showNotifications", "fallbackMode"}

\* Mutant of SettingsDefaults: offscreen is the default mode and the
\* fallback is off unless stored.
MutDefaultsOffscreenNoFallback ==
  [bitlyToken |-> "", interactionMode |-> "offscreen",
   showNotifications |-> TRUE, fallbackMode |-> FALSE]

\* The defaults of the click handler's chrome.storage.sync.get call.
SettingsDefaults ==
  [bitlyToken |-> "", interactionMode |-> "injection",
   showNotifications |-> TRUE, fallbackMode |-> TRUE]

\* The defaults of the sync.get call in the click handler's catch block.
CatchDefaults == [showNotifications |-> TRUE]

\* chrome.storage.sync.get(defaults): a stored value, else the default.  A
\* store is the set of keys it holds and their values.
StorageGet(store, defaults) ==
  [k \in DOMAIN defaults |->
     IF k \in store.keys THEN store.vals[k] ELSE defaults[k]]

\* What options.js saves: all four settings at once.
SavedSettings ==
  [bitlyToken : {"", "tok"},
   interactionMode : {"offscreen", "injection", "popup"},
   showNotifications : BOOLEAN,
   fallbackMode : BOOLEAN]

\* Stores the extension can find: what the options page saves, nothing saved
\* yet, only the token (the first release saved nothing else), or a mode
\* name that handleShortlink's switch does not list.
StoredSettings ==
  {[keys |-> SettingKeys, vals |-> v] : v \in SavedSettings}
    \cup {[keys |-> {}, vals |-> SettingsDefaults],
          [keys |-> {"bitlyToken"},
           vals |-> [SettingsDefaults EXCEPT !.bitlyToken = "tok"]]}
    \cup {[keys |-> SettingKeys,
           vals |-> [bitlyToken |-> "tok", interactionMode |-> "clipboard",
                     showNotifications |-> n, fallbackMode |-> f]] :
            n, f \in BOOLEAN}

---------------------------------------------------------------------------
(* Host facilities *)

\* Mutant of HasOffscreen: the support check is missing.
MutOffscreenAssumed(v) == TRUE

\* chrome.offscreen?.createDocument is defined (Chrome 109+).
HasOffscreen(v) == v # "pre109"

\* chrome.runtime.getContexts is defined (Chrome 116+).
HasGetContexts(v) == v = "v116"

\* Mutant of CreateDocumentResolves: a host without the one-document rule.
MutCreateAlwaysResolves(d) == TRUE

\* The host admits one offscreen document per extension: createDocument
\* resolves only when none exists and rejects otherwise.
CreateDocumentResolves(d) == d = {}

\* chrome.runtime.getContexts' answer for the offscreen document's URL.
ContextsLength(d) == Cardinality(d)

---------------------------------------------------------------------------
(* The delivery's attempt log *)

Attempt(mode, result) == [mode |-> mode, result |-> result]

\* The last attempt of the log gets its result.
Settle(att, result) == [att EXCEPT ![Len(att)].result = result]

\* Mutants of FallbackTaken: the mode is not looked at; the setting is not
\* looked at; the fallback is taken for injection only.
MutFallbackAnyMode(s) == s.fallbackMode
MutFallbackIgnoresSetting(s) == s.interactionMode # "popup"
MutFallbackInjectionOnly(s) == s.fallbackMode /\ s.interactionMode = "injection"

\* handleShortlink's catch block: fall back to the popup, or rethrow.
FallbackTaken(s) == s.fallbackMode /\ s.interactionMode # "popup"

\* Mutant of StrategyOf: the switch's default branch shows the popup.
MutDefaultIsPopup(mode) ==
  CASE mode = "offscreen" -> "offscreen"
    [] mode = "injection" -> "injection"
    [] OTHER -> "popup"

\* The strategy handleShortlink's switch picks for a stored mode.
StrategyOf(mode) ==
  CASE mode = "offscreen" -> "offscreen"
    [] mode = "injection" -> "injection"
    [] mode = "popup" -> "popup"
    [] OTHER -> "injection"

\* Mutant of Notify: showNotification is called whatever the setting.
MutNotifyAlways(ns, s, kind) == Append(ns, kind)

\* showNotification calls of a trigger: a note is added when the setting is on.
Notify(ns, s, kind) == IF s.showNotifications THEN Append(ns, kind) ELSE ns

\* Mutant of AttemptEndsWith: every failed attempt, the fallback's too, is
\* followed by showInPopup.
MutAttemptEndsRetries(p, log, ok) ==
  LET att == Settle(log, IF ok THEN "Ok" ELSE "Err") IN
  IF ok
  THEN /\ attempts' = [attempts EXCEPT ![p] = att]
       /\ pc' = [pc EXCEPT ![p] = "done"]
       /\ threw' = threw
  ELSE IF FallbackTaken(settings[p])
  THEN /\ attempts' = [attempts EXCEPT ![p] = Append(att, Attempt("popup", "running"))]
       /\ pc' = [pc EXCEPT ![p] = "storageSet"]
       /\ threw' = threw
  ELSE /\ attempts' = [attempts EXCEPT ![p] = att]
       /\ pc' = [pc EXCEPT ![p] = "catchGet"]
       /\ threw' = [threw EXCEPT ![p] = TRUE]

\* Mutant of AttemptEndsWith: the catch block swallows the error instead of
\* rethrowing it.
MutAttemptEndsSwallows(p, log, ok) ==
  LET att == Settle(log, IF ok THEN "Ok" ELSE "Err") IN
  IF ok
  THEN /\ attempts' = [attempts EXCEPT ![p] = att]
       /\ pc' = [pc EXCEPT ![p] = "done"]
       /\ threw' = threw
  ELSE IF Len(att) = 1 /\ FallbackTaken(settings[p])
  THEN /\ attempts' = [attempts EXCEPT ![p] = Append(att, Attempt("popup", "running"))]
       /\ pc' = [pc EXCEPT ![p] = "storageSet"]
       /\ threw' = threw
  ELSE /\ attempts' = [attempts EXCEPT ![p] = att]
       /\ pc' = [pc EXCEPT ![p] = "done"]
       /\ threw' = threw

\* The end of an attempt of delivery p, as handleShortlink sees it.  The first
\* attempt runs inside its try block: a failure reaches the catch block, which
\* starts showInPopup (issuing storage.local.set) or rethrows.  The popup
\* fallback runs inside the catch block: its failure leaves handleShortlink.
\* An exception that leaves handleShortlink reaches the click handler's catch
\* block, which issues storage.sync.get.
AttemptEndsWith(p, log, ok) ==
  LET att == Settle(log, IF ok THEN "Ok" ELSE "Err") IN
  IF ok
  THEN /\ attempts' = [attempts EXCEPT ![p] = att]
       /\ pc' = [pc EXCEPT ![p] = "done"]
       /\ threw' = threw
  ELSE IF Len(att) = 1 /\ FallbackTaken(settings[p])
  THEN /\ attempts' = [attempts EXCEPT ![p] = Append(att, Attempt("popup", "running"))]
       /\ pc' = [pc EXCEPT ![p] = "storageSet"]
       /\ threw' = threw
  ELSE /\ attempts' = [attempts EXCEPT ![p] = att]
       /\ pc' = [pc EXCEPT ![p] = "catchGet"]
       /\ threw' = [threw EXCEPT ![p] = TRUE]

\* The end of the attempt delivery p has in progress.
AttemptEnds(p, ok) == AttemptEndsWith(p, attempts[p], ok)

\* Mutants of ClosesDocument: the finally block never closes; it closes
\* whoever created the document.
MutNeverCloses(created) == FALSE
MutAlwaysCloses(created) == TRUE

\* copyViaOffscreen's finally block closes the document this call created.
ClosesDocument(created) == created

\* closeDocument can resolve only when a document exists.
CloseDocumentResolves(d) == d # {}

\* Mutant of Finally: the document is closed after the try block instead of
\* in a finally block, so only when the try block did not throw.
MutCleanupAfterTry(p, ok, w) ==
  IF ClosesDocument(createdContext[p]) /\ ok
  THEN /\ failed' = [failed EXCEPT ![p] = ~ok]
       /\ closeCalls' = [closeCalls EXCEPT ![p] = @ + 1]
       /\ seqState' = "idle"
       /\ \/ /\ CloseDocumentResolves(docs)
             /\ docs' = {}
             /\ writing' = [q \in Procs |-> None]
             /\ pc' = [pc EXCEPT ![p] = "closeResolves"]
             /\ leaked' = leaked
          \/ /\ docs' = docs
             /\ writing' = w
             /\ pc' = [pc EXCEPT ![p] = "closeRejects"]
             /\ leaked' = (docs # {})
       /\ UNCHANGED <<attempts, threw>>
  ELSE /\ AttemptEnds(p, ok)
       /\ writing' = w
       /\ UNCHANGED <<failed, closeCalls, seqState, docs, leaked>>

\* copyViaOffscreen after its try block (ok: it did not throw; w: the writes
\* pending in the document).  The finally block issues closeDocument, which
\* the host serves by removing the document and its pending writes, or
\* refuses; or there is nothing to close and the attempt ends.
Finally(p, ok, w) ==
  IF ClosesDocument(createdContext[p])
  THEN /\ failed' = [failed EXCEPT ![p] = ~ok]
       /\ closeCalls' = [closeCalls EXCEPT ![p] = @ + 1]
       /\ seqState' = "idle"
       /\ \/ /\ CloseDocumentResolves(docs)
             /\ docs' = {}
             /\ writing' = [q \in Procs |-> None]
             /\ pc' = [pc EXCEPT ![p] = "closeResolves"]
             /\ leaked' = leaked
          \/ /\ docs' = docs
             /\ writing' = w
             /\ pc' = [pc EXCEPT ![p] = "closeRejects"]
             /\ leaked' = (docs # {})
       /\ UNCHANGED <<attempts, threw>>
  ELSE /\ AttemptEnds(p, ok)
       /\ writing' = w
       /\ UNCHANGED <<failed, closeCalls, seqState, docs, leaked>>

\* ensureOffscreenDocument issues createDocument: the host registers the
\* document when none exists and refuses the call otherwise.
IssueCreate(p) ==
  /\ createCalls' = [createCalls EXCEPT ![p] = @ + 1]
  /\ IF CreateDocumentResolves(docs)
     THEN /\ docs' = docs \cup {p}
          /\ pc' = [pc EXCEPT ![p] = "createResolves"]
     ELSE /\ docs' = docs
          /\ pc' = [pc EXCEPT ![p] = "createRejects"]

---------------------------------------------------------------------------
(* Monitor: two ensureOffscreenDocument calls in immediate sequence *)

\* A call begins: right after a call that returned true, it is the second
\* call of a pair.
SeqCall(st, p) == IF st = "afterTrue" THEN p ELSE "idle"

\* A call returns r ("true", "false" or "threw").
SeqRet(st, r) == IF r = "true" THEN "afterTrue" ELSE "idle"

\* What the second call of a pair returned, once known.
SeqSecond(st, sec, p, r) == IF st = p THEN r ELSE sec

---------------------------------------------------------------------------
(* Initial state *)

Init ==
  /\ hostVersion \in HostVersions
  /\ offscreenScript \in OffscreenScripts
  /\ sync \in StoredSettings
  /\ localStore = None
  /\ stored = [p \in Procs |-> FALSE]
  /\ writes = 0
  /\ popup = [w \in Pages |-> PopupClosed]
  /\ docs = {}
  /\ offscreenDocumentCreated = FALSE
  /\ clipboard = None
  /\ clicks = 0
  /\ pc = [p \in Procs |-> "idle"]
  /\ settings = [p \in Procs |-> SettingsDefaults]
  /\ shortUrl = [p \in Procs |-> None]
  /\ createdContext = [p \in Procs |-> FALSE]
  /\ failed = [p \in Procs |-> FALSE]
  /\ writing = [p \in Procs |-> None]
  /\ attempts = [p \in Procs |-> <<>>]
  /\ threw = [p \in Procs |-> FALSE]
  /\ notes = [p \in Procs |-> <<>>]
  /\ optionsOpened = [p \in Procs |-> FALSE]
  /\ windows = [p \in Procs |-> None]
  /\ wrote = [p \in Procs |-> FALSE]
  /\ ensureRet = [p \in Procs |-> None]
  /\ observedNone = [p \in Procs |-> FALSE]
  /\ createCalls = [p \in Procs |-> 0]
  /\ closeCalls = [p \in Procs |-> 0]
  /\ closeResult = [p \in Procs |-> None]
  /\ seqState = "idle"
  /\ seqSecond = None
  /\ restarts = 0
  /\ leaked = FALSE
  /\ response = [p \in Procs |-> NoResponseYet]

hostVars == <<hostVersion, offscreenScript, sync, restarts, leaked, popup>>
lifecycleVars == <<docs, offscreenDocumentCreated, createdContext, failed,
                   ensureRet, observedNone, createCalls, closeCalls,
                   closeResult, seqState, seqSecond, response>>
pageVars == <<localStore, stored, writes, clipboard, writing, windows, wrote>>

---------------------------------------------------------------------------
(* The context-menu click handler *)

\* contextMenus.onClicked: the settings are read with their defaults; without
\* a token the handler notifies, opens the options page and returns;
\* otherwise createShortlink issues its fetch.
Click(p) ==
  /\ pc[p] = "idle"
  /\ clicks < MaxClicks
  /\ clicks' = clicks + 1
  /\ LET s == StorageGet(sync, SettingsDefaults) IN
       /\ settings' = [settings EXCEPT ![p] = s]
       /\ IF s.bitlyToken = ""
          THEN /\ notes' = [notes EXCEPT ![p] = Notify(@, s, "token")]
               /\ optionsOpened' = [optionsOpened EXCEPT ![p] = TRUE]
               /\ pc' = [pc EXCEPT ![p] = "done"]
          ELSE /\ pc' = [pc EXCEPT ![p] = "fetch"]
               /\ UNCHANGED <<notes, optionsOpened>>
  /\ UNCHANGED <<hostVars, lifecycleVars, pageVars, shortUrl, attempts, threw>>

\* createShortlink returns data.link and the handler calls handleShortlink.
FetchReturnsLink(p) ==
  /\ pc[p] = "fetch"
  /\ \E link \in Links : shortUrl' = [shortUrl EXCEPT ![p] = link]
  /\ pc' = [pc EXCEPT ![p] = "handleShortlink"]
  /\ UNCHANGED <<hostVars, lifecycleVars, pageVars, clicks, settings, attempts,
                 threw, notes, optionsOpened>>

\* Mutant of FetchFails: createShortlink checks neither response.ok nor
\* data.link and returns, so handleShortlink is called with no link.
MutFetchFailureDelivered(p) ==
  /\ pc[p] = "fetch"
  /\ pc' = [pc EXCEPT ![p] = "handleShortlink"]
  /\ UNCHANGED <<hostVars, lifecycleVars, pageVars, clicks, settings, shortUrl,
                 attempts, threw, notes, optionsOpened>>

\* createShortlink throws (the fetch rejects, the status is not OK, the body
\* has no link): the click handler's catch block issues storage.sync.get.
FetchFails(p) ==
  /\ pc[p] = "fetch"
  /\ pc' = [pc EXCEPT ![p] = "catchGet"]
  /\ UNCHANGED <<hostVars, lifecycleVars, pageVars, clicks, settings, shortUrl,
                 attempts, threw, notes, optionsOpened>>

\* Mutants of CatchSettingsLoaded: one error notification for each failed
\* attempt; the catch block opens the options page.
MutCatchNotifiesPerAttempt(p) ==
  /\ pc[p] = "catchGet"
  /\ notes' = [notes EXCEPT ![p] =
       IF Len(attempts[p]) = 2
       THEN Notify(Notify(@, StorageGet(sync, CatchDefaults), "error"),
                   StorageGet(sync, CatchDefaults), "error")
       ELSE Notify(@, StorageGet(sync, CatchDefaults), "error")]
  /\ pc' = [pc EXCEPT ![p] = "done"]
  /\ UNCHANGED <<hostVars, lifecycleVars, pageVars, clicks, settings, shortUrl,
                 attempts, threw, optionsOpened>>
MutCatchOpensOptions(p) ==
  /\ pc[p] = "catchGet"
  /\ notes' = [notes EXCEPT ![p] = Notify(@, StorageGet(sync, CatchDefaults), "error")]
  /\ optionsOpened' = [optionsOpened EXCEPT ![p] = TRUE]
  /\ pc' = [pc EXCEPT ![p] = "done"]
  /\ UNCHANGED <<hostVars, lifecycleVars, pageVars, clicks, settings, shortUrl,
                 attempts, threw>>

\* The click handler's catch block: showNotifications is read again, and the
\* error notification shown when it is on.
CatchSettingsLoaded(p) ==
  /\ pc[p] = "catchGet"
  /\ notes' = [notes EXCEPT ![p] = Notify(@, StorageGet(sync, CatchDefaults), "error")]
  /\ pc' = [pc EXCEPT ![p] = "done"]
  /\ UNCHANGED <<hostVars, lifecycleVars, pageVars, clicks, settings, shortUrl,
                 attempts, threw, optionsOpened>>

---------------------------------------------------------------------------
(* handleShortlink's switch and ensureOffscreenDocument *)

\* Mode popup: showInPopup issues storage.local.set.
StartPopup(p) ==
  /\ pc[p] = "handleShortlink"
  /\ StrategyOf(settings[p].interactionMode) = "popup"
  /\ attempts' = [attempts EXCEPT ![p] = <<Attempt("popup", "running")>>]
  /\ pc' = [pc EXCEPT ![p] = "storageSet"]
  /\ UNCHANGED <<hostVars, lifecycleVars, pageVars, clicks, settings, shortUrl,
                 threw, notes, optionsOpened>>

\* Mode injection, and any mode the switch does not list: copyToClipboard
\* issues scripting.executeScript.
StartInjection(p) ==
  /\ pc[p] = "handleShortlink"
  /\ StrategyOf(settings[p].interactionMode) = "injection"
  /\ attempts' = [attempts EXCEPT ![p] = <<Attempt("injection", "running")>>]
  /\ pc' = [pc EXCEPT ![p] = "executeScript"]
  /\ UNCHANGED <<hostVars, lifecycleVars, pageVars, clicks, settings, shortUrl,
                 threw, notes, optionsOpened>>

\* Mode offscreen on a host without chrome.offscreen: ensureOffscreenDocument
\* throws, copyViaOffscreen rethrows without reaching its finally block.
StartOffscreenUnsupported(p) ==
  /\ pc[p] = "handleShortlink"
  /\ StrategyOf(settings[p].interactionMode) = "offscreen"
  /\ ~HasOffscreen(hostVersion)
  /\ ensureRet' = [ensureRet EXCEPT ![p] = "threw"]
  /\ seqSecond' = SeqSecond(SeqCall(seqState, p), seqSecond, p, "threw")
  /\ seqState' = SeqRet(SeqCall(seqState, p), "threw")
  /\ AttemptEndsWith(p, <<Attempt("offscreen", "running")>>, FALSE)
  /\ UNCHANGED <<hostVars, response, pageVars, clicks, settings, shortUrl, notes,
                 optionsOpened, docs, offscreenDocumentCreated, createdContext,
                 failed, observedNone, createCalls, closeCalls, closeResult>>

\* Mode offscreen on Chrome 116+: ensureOffscreenDocument issues getContexts,
\* which the host answers with the contexts that exist.
StartOffscreenQuery(p) ==
  /\ pc[p] = "handleShortlink"
  /\ StrategyOf(settings[p].interactionMode) = "offscreen"
  /\ HasOffscreen(hostVersion)
  /\ HasGetContexts(hostVersion)
  /\ attempts' = [attempts EXCEPT ![p] = <<Attempt("offscreen", "running")>>]
  /\ pc' = [pc EXCEPT ![p] = IF ContextsLength(docs) > 0 THEN "contextsFound"
                                                          ELSE "contextsEmpty"]
  /\ seqState' = SeqCall(seqState, p)
  /\ UNCHANGED <<hostVars, response, pageVars, clicks, settings, shortUrl, threw, notes,
                 optionsOpened, docs, offscreenDocumentCreated, createdContext,
                 failed, ensureRet, observedNone, createCalls, closeCalls,
                 closeResult, seqSecond>>

\* The same, with a getContexts call that the host fails.
StartOffscreenQueryFails(p) ==
  /\ pc[p] = "handleShortlink"
  /\ StrategyOf(settings[p].interactionMode) = "offscreen"
  /\ HasOffscreen(hostVersion)
  /\ HasGetContexts(hostVersion)
  /\ attempts' = [attempts EXCEPT ![p] = <<Attempt("offscreen", "running")>>]
  /\ pc' = [pc EXCEPT ![p] = "contextsRejected"]
  /\ seqState' = SeqCall(seqState, p)
  /\ UNCHANGED <<hostVars, response, pageVars, clicks, settings, shortUrl, threw, notes,
                 optionsOpened, docs, offscreenDocumentCreated, createdContext,
                 failed, ensureRet, observedNone, createCalls, closeCalls,
                 closeResult, seqSecond>>

\* Mode offscreen on Chrome 109-115 with the module flag set:
\* ensureOffscreenDocument returns false and copyViaOffscreen issues
\* runtime.sendMessage.
StartOffscreenFlagSet(p) ==
  /\ pc[p] = "handleShortlink"
  /\ StrategyOf(settings[p].interactionMode) = "offscreen"
  /\ HasOffscreen(hostVersion)
  /\ ~HasGetContexts(hostVersion)
  /\ offscreenDocumentCreated
  /\ attempts' = [attempts EXCEPT ![p] = <<Attempt("offscreen", "running")>>]
  /\ ensureRet' = [ensureRet EXCEPT ![p] = "false"]
  /\ createdContext' = [createdContext EXCEPT ![p] = FALSE]
  /\ pc' = [pc EXCEPT ![p] = "sendMessage"]
  /\ seqSecond' = SeqSecond(SeqCall(seqState, p), seqSecond, p, "false")
  /\ seqState' = SeqRet(SeqCall(seqState, p), "false")
  /\ UNCHANGED <<hostVars, response, pageVars, clicks, settings, shortUrl, threw, notes,
                 optionsOpened, docs, offscreenDocumentCreated, failed,
                 observedNone, createCalls, closeCalls, closeResult>>

\* Mode offscreen on Chrome 109-115 with the module flag clear:
\* ensureOffscreenDocument issues createDocument.
StartOffscreenFlagClear(p) ==
  /\ pc[p] = "handleShortlink"
  /\ StrategyOf(settings[p].interactionMode) = "offscreen"
  /\ HasOffscreen(hostVersion)
  /\ ~HasGetContexts(hostVersion)
  /\ ~offscreenDocumentCreated
  /\ attempts' = [attempts EXCEPT ![p] = <<Attempt("offscreen", "running")>>]
  /\ observedNone' = [observedNone EXCEPT ![p] = TRUE]
  /\ IssueCreate(p)
  /\ seqState' = SeqCall(seqState, p)
  /\ UNCHANGED <<hostVars, response, pageVars, clicks, settings, shortUrl, threw, notes,
                 optionsOpened, offscreenDocumentCreated, createdContext,
                 failed, ensureRet, closeCalls, closeResult, seqSecond>>

\* getContexts answered with a context: ensureOffscreenDocument returns false
\* and copyViaOffscreen issues runtime.sendMessage.
GetContextsFinds(p) ==
  /\ pc[p] = "contextsFound"
  /\ ensureRet' = [ensureRet EXCEPT ![p] = "false"]
  /\ createdContext' = [createdContext EXCEPT ![p] = FALSE]
  /\ pc' = [pc EXCEPT ![p] = "sendMessage"]
  /\ seqSecond' = SeqSecond(seqState, seqSecond, p, "false")
  /\ seqState' = SeqRet(seqState, "false")
  /\ UNCHANGED <<hostVars, response, pageVars, clicks, settings, shortUrl, attempts, threw,
                 notes, optionsOpened, docs, offscreenDocumentCreated, failed,
                 observedNone, createCalls, closeCalls, closeResult>>

\* getContexts answered with no context: createDocument is issued.
GetContextsEmpty(p) ==
  /\ pc[p] = "contextsEmpty"
  /\ observedNone' = [observedNone EXCEPT ![p] = TRUE]
  /\ IssueCreate(p)
  /\ UNCHANGED <<hostVars, response, pageVars, clicks, settings, shortUrl, attempts, threw,
                 notes, optionsOpened, offscreenDocumentCreated,
                 createdContext, failed, ensureRet, closeCalls, closeResult,
                 seqState, seqSecond>>

\* getContexts rejected: the catch block logs and createDocument is issued.
GetContextsRejects(p) ==
  /\ pc[p] = "contextsRejected"
  /\ IssueCreate(p)
  /\ UNCHANGED <<hostVars, response, pageVars, clicks, settings, shortUrl, attempts, threw,
                 notes, optionsOpened, offscreenDocumentCreated,
                 createdContext, failed, ensureRet, observedNone, closeCalls,
                 closeResult, seqState, seqSecond>>

\* createDocument resolves: the flag is set, ensureOffscreenDocument returns
\* true and copyViaOffscreen issues runtime.sendMessage.
CreateDocumentOk(p) ==
  /\ pc[p] = "createResolves"
  /\ offscreenDocumentCreated' = TRUE
  /\ ensureRet' = [ensureRet EXCEPT ![p] = "true"]
  /\ createdContext' = [createdContext EXCEPT ![p] = TRUE]
  /\ pc' = [pc EXCEPT ![p] = "sendMessage"]
  /\ seqSecond' = SeqSecond(seqState, seqSecond, p, "true")
  /\ seqState' = SeqRet(seqState, "true")
  /\ UNCHANGED <<hostVars, response, pageVars, clicks, settings, shortUrl, attempts, threw,
                 notes, optionsOpened, docs, failed, observedNone, createCalls,
                 closeCalls, closeResult>>

\* Mutant of CreateDocumentRejects: the rejection is caught inside
\* ensureOffscreenDocument, which returns false.
MutCreateRejectsReturnsFalse(p) ==
  /\ pc[p] = "createRejects"
  /\ ensureRet' = [ensureRet EXCEPT ![p] = "false"]
  /\ createdContext' = [createdContext EXCEPT ![p] = FALSE]
  /\ pc' = [pc EXCEPT ![p] = "sendMessage"]
  /\ seqSecond' = SeqSecond(seqState, seqSecond, p, "false")
  /\ seqState' = SeqRet(seqState, "false")
  /\ UNCHANGED <<hostVars, response, pageVars, clicks, settings, shortUrl, attempts, threw,
                 notes, optionsOpened, docs, offscreenDocumentCreated, failed,
                 observedNone, createCalls, closeCalls, closeResult>>

\* Mutant of CreateDocumentRejects: the failed creation is cleaned up like a
\* finished delivery, the flag is cleared.
MutCreateRejectsClearsFlag(p) ==
  /\ pc[p] = "createRejects"
  /\ ensureRet' = [ensureRet EXCEPT ![p] = "threw"]
  /\ seqSecond' = SeqSecond(seqState, seqSecond, p, "threw")
  /\ seqState' = SeqRet(seqState, "threw")
  /\ offscreenDocumentCreated' = FALSE
  /\ AttemptEnds(p, FALSE)
  /\ UNCHANGED <<hostVars, response, pageVars, clicks, settings, shortUrl, notes,
                 optionsOpened, docs, createdContext,
                 failed, observedNone, createCalls, closeCalls, closeResult>>

\* createDocument rejects: ensureOffscreenDocument throws, copyViaOffscreen
\* rethrows without reaching its finally block, and the attempt has failed.
CreateDocumentRejects(p) ==
  /\ pc[p] = "createRejects"
  /\ ensureRet' = [ensureRet EXCEPT ![p] = "threw"]
  /\ seqSecond' = SeqSecond(seqState, seqSecond, p, "threw")
  /\ seqState' = SeqRet(seqState, "threw")
  /\ AttemptEnds(p, FALSE)
  /\ UNCHANGED <<hostVars, response, pageVars, clicks, settings, shortUrl, notes,
                 optionsOpened, docs, offscreenDocumentCreated, createdContext,
                 failed, observedNone, createCalls, closeCalls, closeResult>>

---------------------------------------------------------------------------
(* copyViaOffscreen's message round trip and the offscreen document *)

\* runtime.sendMessage finds no receiving end (no offscreen document): it
\* rejects and copyViaOffscreen's try block throws.
SendMessageNoReceiver(p) ==
  /\ pc[p] = "sendMessage"
  /\ docs = {}
  /\ response' = [response EXCEPT ![p] = Response("rejected", shortUrl[p])]
  /\ Finally(p, FALSE, writing)
  /\ UNCHANGED <<hostVersion, offscreenScript, sync, restarts, popup,
                 localStore, stored, writes, clipboard, windows, wrote, clicks,
                 settings, shortUrl, notes, optionsOpened,
                 offscreenDocumentCreated, createdContext, ensureRet,
                 observedNone, createCalls, closeResult, seqSecond>>

\* src/extension/offscreen.js receives the message: its listener is an async
\* function, which starts the clipboard write and returns a promise without
\* calling sendResponse, so the channel closes with no response.
ExtensionListener(p) ==
  /\ pc[p] = "sendMessage"
  /\ docs # {}
  /\ offscreenScript = "extension"
  /\ writing' = [writing EXCEPT ![p] = shortUrl[p]]
  /\ pc' = [pc EXCEPT ![p] = "noResponse"]
  /\ UNCHANGED <<hostVars, lifecycleVars, localStore, stored, writes, clipboard, windows, wrote,
                 clicks, settings, shortUrl, attempts, threw, notes,
                 optionsOpened>>

\* Mutant of NoResponse: a missing response is not checked for and counts
\* as success.
MutNoResponseAccepted(p) ==
  /\ pc[p] = "noResponse"
  /\ response' = [response EXCEPT ![p] = Response("undefined", shortUrl[p])]
  /\ Finally(p, TRUE, writing)
  /\ UNCHANGED <<hostVersion, offscreenScript, sync, restarts, popup,
                 localStore, stored, writes, clipboard, windows, wrote, clicks,
                 settings, shortUrl, notes, optionsOpened,
                 offscreenDocumentCreated, createdContext, ensureRet,
                 observedNone, createCalls, closeResult, seqSecond>>

\* sendMessage resolves with no response: response?.success is not true and
\* copyViaOffscreen throws 'Clipboard write failed'.
NoResponse(p) ==
  /\ pc[p] = "noResponse"
  /\ response' = [response EXCEPT ![p] = Response("undefined", shortUrl[p])]
  /\ Finally(p, FALSE, writing)
  /\ UNCHANGED <<hostVersion, offscreenScript, sync, restarts, popup,
                 localStore, stored, writes, clipboard, windows, wrote, clicks,
                 settings, shortUrl, notes, optionsOpened,
                 offscreenDocumentCreated, createdContext, ensureRet,
                 observedNone, createCalls, closeResult, seqSecond>>

\* src/unnamed/part_000 receives the message: its listener starts the
\* clipboard write and returns true, which keeps the channel open.
Part000Listener(p) ==
  /\ pc[p] = "sendMessage"
  /\ docs # {}
  /\ offscreenScript = "part_000"
  /\ writing' = [writing EXCEPT ![p] = shortUrl[p]]
  /\ pc' = [pc EXCEPT ![p] = "awaitResponse"]
  /\ UNCHANGED <<hostVars, lifecycleVars, localStore, stored, writes, clipboard, windows, wrote,
                 clicks, settings, shortUrl, attempts, threw, notes,
                 optionsOpened>>

\* src/extension/offscreen.js: the write settles; the clipboardSuccess or
\* clipboardError message it then sends has no listener branch in
\* background.js.
ExtensionWriteSettles(p) ==
  /\ writing[p] # None
  /\ docs # {}
  /\ offscreenScript = "extension"
  /\ writing' = [writing EXCEPT ![p] = None]
  /\ \/ /\ clipboard' = writing[p]
        /\ wrote' = [wrote EXCEPT ![p] = TRUE]
     \/ UNCHANGED <<clipboard, wrote>>
  /\ UNCHANGED <<hostVars, lifecycleVars, localStore, stored, writes, windows, clicks, pc,
                 settings, shortUrl, attempts, threw, notes, optionsOpened>>

\* Mutant of Part000WriteOk: the listener keeps the message in a variable
\* of the document, so the write and the answer are those of any pending
\* message.
MutPart000SharedMessage(p) ==
  /\ writing[p] # None
  /\ docs # {}
  /\ offscreenScript = "part_000"
  /\ pc[p] = "awaitResponse"
  /\ \E q \in Procs :
       /\ writing[q] # None
       /\ clipboard' = writing[q]
       /\ response' = [response EXCEPT ![p] = Response("success", writing[q])]
  /\ wrote' = [wrote EXCEPT ![p] = TRUE]
  /\ notes' = [notes EXCEPT ![p] = Notify(@, settings[p], "success")]
  /\ Finally(p, TRUE, [writing EXCEPT ![p] = None])
  /\ UNCHANGED <<hostVersion, offscreenScript, sync, restarts, popup,
                 localStore, stored, writes, windows, clicks, settings, shortUrl,
                 optionsOpened, offscreenDocumentCreated, createdContext,
                 ensureRet, observedNone, createCalls, closeResult, seqSecond>>

\* src/unnamed/part_000: the write succeeds, sendResponse({success: true});
\* copyViaOffscreen shows the success notification and reaches finally.
Part000WriteOk(p) ==
  /\ writing[p] # None
  /\ docs # {}
  /\ offscreenScript = "part_000"
  /\ pc[p] = "awaitResponse"
  /\ clipboard' = writing[p]
  /\ wrote' = [wrote EXCEPT ![p] = TRUE]
  /\ notes' = [notes EXCEPT ![p] = Notify(@, settings[p], "success")]
  /\ response' = [response EXCEPT ![p] = Response("success", writing[p])]
  /\ Finally(p, TRUE, [writing EXCEPT ![p] = None])
  /\ UNCHANGED <<hostVersion, offscreenScript, sync, restarts, popup,
                 localStore, stored, writes, windows, clicks, settings, shortUrl,
                 optionsOpened, offscreenDocumentCreated, createdContext,
                 ensureRet, observedNone, createCalls, closeResult, seqSecond>>

\* Mutant of Part000WriteFails: the success notification is shown before the
\* response is examined.
MutNotifiesBeforeCheck(p) ==
  /\ writing[p] # None
  /\ docs # {}
  /\ offscreenScript = "part_000"
  /\ pc[p] = "awaitResponse"
  /\ response' = [response EXCEPT ![p] = Response("failure", writing[p])]
  /\ notes' = [notes EXCEPT ![p] = Notify(@, settings[p], "success")]
  /\ Finally(p, FALSE, [writing EXCEPT ![p] = None])
  /\ UNCHANGED <<hostVersion, offscreenScript, sync, restarts, popup,
                 localStore, stored, writes, clipboard, windows, wrote, clicks,
                 settings, shortUrl, optionsOpened,
                 offscreenDocumentCreated, createdContext, ensureRet,
                 observedNone, createCalls, closeResult, seqSecond>>

\* src/unnamed/part_000: the write fails, sendResponse({success: false,
\* error}); copyViaOffscreen throws the error.
Part000WriteFails(p) ==
  /\ writing[p] # None
  /\ docs # {}
  /\ offscreenScript = "part_000"
  /\ pc[p] = "awaitResponse"
  /\ response' = [response EXCEPT ![p] = Response("failure", writing[p])]
  /\ Finally(p, FALSE, [writing EXCEPT ![p] = None])
  /\ UNCHANGED <<hostVersion, offscreenScript, sync, restarts, popup,
                 localStore, stored, writes, clipboard, windows, wrote, clicks,
                 settings, shortUrl, notes, optionsOpened,
                 offscreenDocumentCreated, createdContext, ensureRet,
                 observedNone, createCalls, closeResult, seqSecond>>

\* Mutant of PortClosed: the closing of the channel is not noticed.
MutPortNeverCloses(p) ==
  /\ pc[p] = "awaitResponse"
  /\ writing[p] = None
  /\ FALSE
  /\ UNCHANGED vars

\* The document was closed before it answered: the message port closes,
\* sendMessage yields no response and copyViaOffscreen throws.
PortClosed(p) ==
  /\ pc[p] = "awaitResponse"
  /\ writing[p] = None
  /\ response' = [response EXCEPT ![p] = Response("undefined", shortUrl[p])]
  /\ Finally(p, FALSE, writing)
  /\ UNCHANGED <<hostVersion, offscreenScript, sync, restarts, popup,
                 localStore, stored, writes, clipboard, windows, wrote, clicks,
                 settings, shortUrl, notes, optionsOpened,
                 offscreenDocumentCreated, createdContext, ensureRet,
                 observedNone, createCalls, closeResult, seqSecond>>

\* Mutant of CloseDocumentOk: the flag is not cleared after the close.
MutFlagKeptAfterClose(p) ==
  /\ pc[p] = "closeResolves"
  /\ closeResult' = [closeResult EXCEPT ![p] = "closed"]
  /\ AttemptEnds(p, ~failed[p])
  /\ UNCHANGED <<hostVars, response, pageVars, clicks, settings, shortUrl, notes,
                 optionsOpened, docs, createdContext, failed, ensureRet,
                 observedNone, createCalls, closeCalls, seqState, seqSecond,
                 offscreenDocumentCreated>>

\* closeDocument resolves: the inner finally clears the flag and
\* copyViaOffscreen ends, by returning or by rethrowing.
CloseDocumentOk(p) ==
  /\ pc[p] = "closeResolves"
  /\ closeResult' = [closeResult EXCEPT ![p] = "closed"]
  /\ offscreenDocumentCreated' = FALSE
  /\ AttemptEnds(p, ~failed[p])
  /\ UNCHANGED <<hostVars, response, pageVars, clicks, settings, shortUrl, notes,
                 optionsOpened, docs, createdContext, failed, ensureRet,
                 observedNone, createCalls, closeCalls, seqState, seqSecond>>

\* Mutant of CloseDocumentRejects: the rejection is not caught and leaves
\* copyViaOffscreen as an error.
MutCloseRejectionEscapes(p) ==
  /\ pc[p] = "closeRejects"
  /\ closeResult' = [closeResult EXCEPT ![p] = "rejected"]
  /\ offscreenDocumentCreated' = FALSE
  /\ AttemptEnds(p, FALSE)
  /\ UNCHANGED <<hostVars, response, pageVars, clicks, settings, shortUrl, notes,
                 optionsOpened, docs, createdContext, failed, ensureRet,
                 observedNone, createCalls, closeCalls, seqState, seqSecond>>

\* closeDocument rejects: the catch block logs a warning, the inner finally
\* clears the flag all the same and copyViaOffscreen ends.
CloseDocumentRejects(p) ==
  /\ pc[p] = "closeRejects"
  /\ closeResult' = [closeResult EXCEPT ![p] = "rejected"]
  /\ offscreenDocumentCreated' = FALSE
  /\ AttemptEnds(p, ~failed[p])
  /\ UNCHANGED <<hostVars, response, pageVars, clicks, settings, shortUrl, notes,
                 optionsOpened, docs, createdContext, failed, ensureRet,
                 observedNone, createCalls, closeCalls, seqState, seqSecond>>

---------------------------------------------------------------------------
(* copyToClipboard (injection) and showInPopup *)

\* The injected function wrote the clipboard and returned {success: true}:
\* handleShortlink shows the success notification.
ExecuteScriptOk(p) ==
  /\ pc[p] = "executeScript"
  /\ clipboard' = shortUrl[p]
  /\ wrote' = [wrote EXCEPT ![p] = TRUE]
  /\ notes' = [notes EXCEPT ![p] = Notify(@, settings[p], "success")]
  /\ AttemptEnds(p, TRUE)
  /\ UNCHANGED <<hostVars, lifecycleVars, localStore, stored, writes, writing, windows, clicks,
                 settings, shortUrl, optionsOpened>>

\* Mutant of ExecuteScriptFails: copyToClipboard is called outside
\* handleShortlink's try block, so its error reaches the click handler.
MutInjectionErrorEscapes(p) ==
  /\ pc[p] = "executeScript"
  /\ attempts' = [attempts EXCEPT ![p] = Settle(@, "Err")]
  /\ threw' = [threw EXCEPT ![p] = TRUE]
  /\ pc' = [pc EXCEPT ![p] = "catchGet"]
  /\ UNCHANGED <<hostVars, lifecycleVars, pageVars, clicks, settings, shortUrl,
                 notes, optionsOpened>>

\* executeScript rejects (the page refuses injection), or the injected
\* function returns {success: false}: copyToClipboard throws.
ExecuteScriptFails(p) ==
  /\ pc[p] = "executeScript"
  /\ AttemptEnds(p, FALSE)
  /\ UNCHANGED <<hostVars, lifecycleVars, pageVars, clicks, settings, shortUrl,
                 notes, optionsOpened>>

\* Mutant of StorageSetReturns: showInPopup does not await the write; the
\* window is created while the write is still pending.
MutWindowBeforeStore(p) ==
  /\ pc[p] = "storageSet"
  /\ pc' = [pc EXCEPT ![p] = "windowsCreate"]
  /\ UNCHANGED <<hostVars, lifecycleVars, pageVars, clicks, settings, shortUrl,
                 attempts, threw, notes, optionsOpened>>

\* Mutant of StorageSetReturns: showInPopup stores a text kept in a variable
\* of the module, which any trigger may have set, instead of its argument.
MutStoresModuleText(p) ==
  /\ pc[p] = "storageSet"
  /\ \E u \in Links : localStore' = u
  /\ writes' = writes + 1
  /\ stored' = [stored EXCEPT ![p] = TRUE]
  /\ pc' = [pc EXCEPT ![p] = "windowsCreate"]
  /\ UNCHANGED <<hostVars, lifecycleVars, clipboard, writing, windows, wrote,
                 clicks, settings, shortUrl, attempts, threw, notes,
                 optionsOpened>>

\* storage.local.set resolves: currentShortlink is stored and showInPopup
\* issues windows.create.
StorageSetReturns(p) ==
  /\ pc[p] = "storageSet"
  /\ localStore' = shortUrl[p]
  /\ writes' = writes + 1
  /\ stored' = [stored EXCEPT ![p] = TRUE]
  /\ pc' = [pc EXCEPT ![p] = "windowsCreate"]
  /\ UNCHANGED <<hostVars, lifecycleVars, clipboard, writing, windows, wrote,
                 clicks, settings, shortUrl, attempts, threw, notes,
                 optionsOpened>>

\* Mutant of StorageSetRejects: showInPopup catches the rejection of the
\* write and goes on to create the window.
MutStorageErrorCaught(p) ==
  /\ pc[p] = "storageSet"
  /\ pc' = [pc EXCEPT ![p] = "windowsCreate"]
  /\ UNCHANGED <<hostVars, lifecycleVars, pageVars, clicks, settings, shortUrl,
                 attempts, threw, notes, optionsOpened>>

\* storage.local.set rejects: the awaited call throws out of showInPopup
\* before windows.create is reached.
StorageSetRejects(p) ==
  /\ pc[p] = "storageSet"
  /\ AttemptEnds(p, FALSE)
  /\ UNCHANGED <<hostVars, lifecycleVars, pageVars, clicks, settings, shortUrl,
                 notes, optionsOpened>>

\* Mutant of WindowsCreateOk: showInPopup shows the success notification.
MutPopupNotifies(p) ==
  /\ pc[p] = "windowsCreate"
  /\ windows' = [windows EXCEPT ![p] = "open"]
  /\ notes' = [notes EXCEPT ![p] = Notify(@, settings[p], "success")]
  /\ AttemptEnds(p, TRUE)
  /\ UNCHANGED <<hostVars, lifecycleVars, localStore, stored, writes, clipboard, writing, wrote,
                 clicks, settings, shortUrl, optionsOpened>>

\* windows.create resolves: the popup window is open.
WindowsCreateOk(p) ==
  /\ pc[p] = "windowsCreate"
  /\ windows' = [windows EXCEPT ![p] = "open"]
  /\ AttemptEnds(p, TRUE)
  /\ UNCHANGED <<hostVars, lifecycleVars, localStore, stored, writes, clipboard, writing, wrote,
                 clicks, settings, shortUrl, notes, optionsOpened>>

\* windows.create rejects: showInPopup throws.
WindowsCreateRejects(p) ==
  /\ pc[p] = "windowsCreate"
  /\ AttemptEnds(p, FALSE)
  /\ UNCHANGED <<hostVars, lifecycleVars, pageVars, clicks, settings, shortUrl,
                 notes, optionsOpened>>

\* src/unnamed/part_000 after a teardown of the service worker: the write
\* settles and sendResponse finds no one waiting.
Part000WriteUnheard(p) ==
  /\ writing[p] # None
  /\ docs # {}
  /\ offscreenScript = "part_000"
  /\ pc[p] # "awaitResponse"
  /\ writing' = [writing EXCEPT ![p] = None]
  /\ \/ clipboard' = writing[p]
     \/ clipboard' = clipboard
  /\ UNCHANGED <<hostVars, lifecycleVars, localStore, stored, writes, windows, wrote, clicks, pc,
                 settings, shortUrl, attempts, threw, notes, optionsOpened>>

\* A handler that is between two awaited calls.
---------------------------------------------------------------------------
(* popup.js and the background's createShortlinkFromPopup handler *)

otherVars == <<hostVersion, offscreenScript, sync, restarts, leaked,
               lifecycleVars, stored, writes, clipboard, writing, windows,
               wrote, clicks, pc, settings, shortUrl, attempts, threw, notes,
               optionsOpened>>

\* The write that stored the present currentShortlink: a value in storage is
\* that of the latest storage.local.set.
StoreNo == IF localStore = None THEN 0 ELSE writes

\* popup.html loads, in the window a delivery opened or opened by the user:
\* the DOMContentLoaded handler issues storage.local.get, which the host
\* answers with the present currentShortlink.
PopupLoads(w) ==
  /\ popup[w].pc = "closed"
  /\ w \in Procs => windows[w] = "open"
  /\ popup' = [popup EXCEPT ![w] =
       [PopupClosed EXCEPT !.pc = "get", !.read = localStore, !.readNo = StoreNo]]
  /\ UNCHANGED <<otherVars, localStore>>

\* storage.local.get returned a currentShortlink: popup.js issues
\* storage.local.remove, which deletes whatever the key holds by now.
PopupGetFound(w) ==
  /\ popup[w].pc = "get"
  /\ popup[w].read # None
  /\ localStore' = None
  /\ popup' = [popup EXCEPT ![w].pc = "remove"]
  /\ UNCHANGED otherVars

\* storage.local.remove resolves: showSuccess displays the value read, and
\* the handler returns.
PopupRemoveReturns(w) ==
  /\ popup[w].pc = "remove"
  /\ popup' = [popup EXCEPT ![w].pc = "shown", ![w].shown = popup[w].read]
  /\ UNCHANGED <<otherVars, localStore>>

\* storage.local.get returned nothing: popup.js sends
\* createShortlinkFromPopup; the background's listener starts its async
\* function, which issues tabs.query, and returns true.
PopupGetEmpty(w) ==
  /\ popup[w].pc = "get"
  /\ popup[w].read = None
  /\ popup' = [popup EXCEPT ![w].pc = "tabsQuery", ![w].sent = @ + 1]
  /\ UNCHANGED <<otherVars, localStore>>

\* The handler's async function awaits tabs.query, sync.get or the fetch.
HandlerRuns(w) == popup[w].pc \in {"tabsQuery", "syncGet", "createShortlink"}

\* sendResponse(r) of the handler: one more call; the first call settles the
\* page's sendMessage, later calls are ignored by the host.
SendResponse(pg, r) ==
  [pg EXCEPT !.answers = @ + 1,
             !.resp = IF pg.answers = 0 THEN r ELSE @]

\* Mutant of HandlerNoTab: no return after the sendResponse call, the
\* function goes on to read the settings.
MutNoTabFallsThrough(w) ==
  /\ popup[w].pc = "tabsQuery"
  /\ popup' = [popup EXCEPT ![w] =
       [SendResponse(@, Response("failure", None)) EXCEPT !.pc = "syncGet"]]
  /\ UNCHANGED <<otherVars, localStore>>

\* tabs.query finds no active tab with a url: sendResponse({success: false});
\* a rejected tabs.query ends the same way through the catch block.
HandlerNoTab(w) ==
  /\ popup[w].pc = "tabsQuery"
  /\ popup' = [popup EXCEPT ![w] =
       [SendResponse(@, Response("failure", None)) EXCEPT !.pc = "answered"]]
  /\ UNCHANGED <<otherVars, localStore>>

\* tabs.query finds the active tab: the handler issues storage.sync.get.
HandlerTabFound(w) ==
  /\ popup[w].pc = "tabsQuery"
  /\ popup' = [popup EXCEPT ![w].pc = "syncGet"]
  /\ UNCHANGED <<otherVars, localStore>>

\* The settings hold no token: sendResponse({success: false}); otherwise the
\* handler issues the shortlink request.
HandlerSettingsLoaded(w) ==
  /\ popup[w].pc = "syncGet"
  /\ popup' = [popup EXCEPT ![w] =
       IF StorageGet(sync, SettingsDefaults).bitlyToken = ""
       THEN [SendResponse(@, Response("failure", None)) EXCEPT !.pc = "answered"]
       ELSE [@ EXCEPT !.pc = "createShortlink"]]
  /\ UNCHANGED <<otherVars, localStore>>

\* createShortlink returns: sendResponse({success: true, shortUrl}).
HandlerShortlinkCreated(w) ==
  /\ popup[w].pc = "createShortlink"
  /\ \E u \in Links :
       popup' = [popup EXCEPT ![w] =
         [SendResponse(@, Response("success", u)) EXCEPT !.pc = "answered"]]
  /\ UNCHANGED <<otherVars, localStore>>

\* createShortlink throws: the catch block answers with the error.
HandlerShortlinkFails(w) ==
  /\ popup[w].pc = "createShortlink"
  /\ popup' = [popup EXCEPT ![w] =
       [SendResponse(@, Response("failure", None)) EXCEPT !.pc = "answered"]]
  /\ UNCHANGED <<otherVars, localStore>>

\* The page's sendMessage call settles: showSuccess(response.shortUrl) for
\* success = true, showError otherwise.
PopupResponse(w) ==
  /\ popup[w].pc = "answered"
  /\ popup' = [popup EXCEPT ![w].pc = "shown",
                            ![w].shown = IF popup[w].resp.kind = "success"
                                         THEN popup[w].resp.text ELSE "error"]
  /\ UNCHANGED <<otherVars, localStore>>

InProgress(p) == pc[p] \notin {"idle", "done", "tornDown"}

\* The browser tears the service worker down while handlers await a host
\* call: the handlers and their variables are gone and the next start of
\* background.js finds offscreenDocumentCreated false.  The offscreen
\* document, the storage areas and the clipboard are not the worker's.  (A
\* teardown with no handler in progress finds the flag false already.)
Restart ==
  /\ restarts < MaxRestarts
  /\ (\E p \in Procs : InProgress(p)) \/ (\E w \in Pages : HandlerRuns(w))
  /\ popup' = [w \in Pages |->
                 IF HandlerRuns(w)
                 THEN [popup[w] EXCEPT !.pc = "answered",
                                       !.resp = Response("undefined", None)]
                 ELSE popup[w]]
  /\ restarts' = restarts + 1
  /\ leaked' = (docs # {})
  /\ offscreenDocumentCreated' = FALSE
  /\ seqState' = "idle"
  /\ pc' = [p \in Procs |-> IF InProgress(p) THEN "tornDown" ELSE pc[p]]
  /\ settings' = [p \in Procs |-> IF InProgress(p) THEN SettingsDefaults ELSE settings[p]]
  /\ shortUrl' = [p \in Procs |-> IF InProgress(p) THEN None ELSE shortUrl[p]]
  /\ createdContext' = [p \in Procs |-> IF InProgress(p) THEN FALSE ELSE createdContext[p]]
  /\ failed' = [p \in Procs |-> IF InProgress(p) THEN FALSE ELSE failed[p]]
  /\ attempts' = [p \in Procs |-> IF InProgress(p) THEN <<>> ELSE attempts[p]]
  /\ threw' = [p \in Procs |-> IF InProgress(p) THEN FALSE ELSE threw[p]]
  /\ notes' = [p \in Procs |-> IF InProgress(p) THEN <<>> ELSE notes[p]]
  /\ optionsOpened' = [p \in Procs |-> IF InProgress(p) THEN FALSE ELSE optionsOpened[p]]
  /\ windows' = [p \in Procs |-> IF InProgress(p) THEN None ELSE windows[p]]
  /\ stored' = [p \in Procs |-> IF InProgress(p) THEN FALSE ELSE stored[p]]
  /\ wrote' = [p \in Procs |-> IF InProgress(p) THEN FALSE ELSE wrote[p]]
  /\ ensureRet' = [p \in Procs |-> IF InProgress(p) THEN None ELSE ensureRet[p]]
  /\ observedNone' = [p \in Procs |-> IF InProgress(p) THEN FALSE ELSE observedNone[p]]
  /\ createCalls' = [p \in Procs |-> IF InProgress(p) THEN 0 ELSE createCalls[p]]
  /\ closeCalls' = [p \in Procs |-> IF InProgress(p) THEN 0 ELSE closeCalls[p]]
  /\ closeResult' = [p \in Procs |-> IF InProgress(p) THEN None ELSE closeResult[p]]
  /\ response' = [p \in Procs |-> IF InProgress(p) THEN NoResponseYet ELSE response[p]]
  /\ UNCHANGED <<hostVersion, offscreenScript, sync, localStore, writes,
                 clipboard, writing, clicks, docs, seqSecond>>

\* The handler has returned; its slot serves the next trigger.
Finish(p) ==
  /\ pc[p] \in {"done", "tornDown"}
  /\ popup[p].pc \in {"closed", "shown"}
  /\ popup' = [popup EXCEPT ![p] = PopupClosed]
  /\ clicks < MaxClicks
  /\ writing[p] = None
  /\ pc' = [pc EXCEPT ![p] = "idle"]
  /\ settings' = [settings EXCEPT ![p] = SettingsDefaults]
  /\ shortUrl' = [shortUrl EXCEPT ![p] = None]
  /\ createdContext' = [createdContext EXCEPT ![p] = FALSE]
  /\ failed' = [failed EXCEPT ![p] = FALSE]
  /\ attempts' = [attempts EXCEPT ![p] = <<>>]
  /\ threw' = [threw EXCEPT ![p] = FALSE]
  /\ notes' = [notes EXCEPT ![p] = <<>>]
  /\ optionsOpened' = [optionsOpened EXCEPT ![p] = FALSE]
  /\ windows' = [windows EXCEPT ![p] = None]
  /\ stored' = [stored EXCEPT ![p] = FALSE]
  /\ wrote' = [wrote EXCEPT ![p] = FALSE]
  /\ ensureRet' = [ensureRet EXCEPT ![p] = None]
  /\ observedNone' = [observedNone EXCEPT ![p] = FALSE]
  /\ createCalls' = [createCalls EXCEPT ![p] = 0]
  /\ closeCalls' = [closeCalls EXCEPT ![p] = 0]
  /\ closeResult' = [closeResult EXCEPT ![p] = None]
  /\ response' = [response EXCEPT ![p] = NoResponseYet]
  /\ UNCHANGED <<hostVersion, offscreenScript, sync, restarts, leaked,
                 localStore, writes, clipboard, writing, clicks, docs,
                 offscreenDocumentCreated, seqState, seqSecond>>

---------------------------------------------------------------------------
(* Specification *)

Next ==
  \/ Restart
  \/ \E p \in Procs :
    \/ Click(p)
    \/ FetchReturnsLink(p)
    \/ FetchFails(p)
    \/ CatchSettingsLoaded(p)
    \/ StartPopup(p)
    \/ StartInjection(p)
    \/ StartOffscreenUnsupported(p)
    \/ StartOffscreenQuery(p)
    \/ StartOffscreenQueryFails(p)
    \/ StartOffscreenFlagSet(p)
    \/ StartOffscreenFlagClear(p)
    \/ GetContextsFinds(p)
    \/ GetContextsEmpty(p)
    \/ GetContextsRejects(p)
    \/ CreateDocumentOk(p)
    \/ CreateDocumentRejects(p)
    \/ SendMessageNoReceiver(p)
    \/ ExtensionListener(p)
    \/ NoResponse(p)
    \/ Part000Listener(p)
    \/ ExtensionWriteSettles(p)
    \/ Part000WriteOk(p)
    \/ Part000WriteFails(p)
    \/ PortClosed(p)
    \/ Part000WriteUnheard(p)
    \/ CloseDocumentOk(p)
    \/ CloseDocumentRejects(p)
    \/ ExecuteScriptOk(p)
    \/ ExecuteScriptFails(p)
    \/ StorageSetReturns(p)
    \/ StorageSetRejects(p)
    \/ WindowsCreateOk(p)
    \/ WindowsCreateRejects(p)
    \/ Finish(p)

Spec == Init /\ [][Next]_vars

\* The continuations of handler p that run when a host call of the
\* background settles: storage, getContexts, createDocument, sendMessage
\* with no receiver or with a closed channel, closeDocument, executeScript,
\* windows.create and the fetch.  The response of a document that keeps the
\* channel open is not among them: it comes when the document's clipboard
\* write settles, and copyViaOffscreen sets no timer.
HostSettles(p) ==
  \/ FetchReturnsLink(p)
  \/ FetchFails(p)
  \/ CatchSettingsLoaded(p)
  \/ StartPopup(p)
  \/ StartInjection(p)
  \/ StartOffscreenUnsupported(p)
  \/ StartOffscreenQuery(p)
  \/ StartOffscreenQueryFails(p)
  \/ StartOffscreenFlagSet(p)
  \/ StartOffscreenFlagClear(p)
  \/ GetContextsFinds(p)
  \/ GetContextsEmpty(p)
  \/ GetContextsRejects(p)
  \/ CreateDocumentOk(p)
  \/ CreateDocumentRejects(p)
  \/ SendMessageNoReceiver(p)
  \/ ExtensionListener(p)
  \/ NoResponse(p)
  \/ Part000Listener(p)
  \/ PortClosed(p)
  \/ CloseDocumentOk(p)
  \/ CloseDocumentRejects(p)
  \/ ExecuteScriptOk(p)
  \/ ExecuteScriptFails(p)
  \/ StorageSetReturns(p)
  \/ StorageSetRejects(p)
  \/ WindowsCreateOk(p)
  \/ WindowsCreateRejects(p)

\* The steps of a popup page and of the handler that serves it.
PopupStep(w) ==
  \/ PopupLoads(w)
  \/ PopupGetFound(w)
  \/ PopupRemoveReturns(w)
  \/ PopupGetEmpty(w)
  \/ HandlerNoTab(w)
  \/ HandlerTabFound(w)
  \/ HandlerSettingsLoaded(w)
  \/ HandlerShortlinkCreated(w)
  \/ HandlerShortlinkFails(w)
  \/ PopupResponse(w)

\* The same behaviours, with every host call of the background settling.
SpecLive == Spec /\ \A p \in Procs : WF_vars(HostSettles(p))

\* The deliveries that end in showInPopup, with the popup pages.  On a host
\* without the offscreen API the offscreen strategy fails at once, so that
\* every mode reaches showInPopup by the same steps as on the other hosts.
InitPopup == Init /\ hostVersion = "pre109" /\ offscreenScript = "extension"

NextPopup ==
  \/ Restart
  \/ \E p \in Procs :
    \/ Click(p)
    \/ FetchReturnsLink(p)
    \/ FetchFails(p)
    \/ CatchSettingsLoaded(p)
    \/ StartPopup(p)
    \/ StartInjection(p)
    \/ StartOffscreenUnsupported(p)
    \/ ExecuteScriptOk(p)
    \/ ExecuteScriptFails(p)
    \/ StorageSetReturns(p)
    \/ StorageSetRejects(p)
    \/ WindowsCreateOk(p)
    \/ WindowsCreateRejects(p)
    \/ Finish(p)
  \/ \E w \in Pages : PopupStep(w)

SpecPopup == InitPopup /\ [][NextPopup]_vars

---------------------------------------------------------------------------
(* Properties *)

\* handleShortlink has been entered and its switch has started a strategy.
Delivering(p) == shortUrl[p] # None /\ pc[p] # "handleShortlink"

\* The awaited calls of a first attempt.
FirstAttemptCalls ==
  {"contextsFound", "contextsEmpty", "contextsRejected", "createResolves",
   "createRejects", "sendMessage", "noResponse", "awaitResponse",
   "closeResolves", "closeRejects", "executeScript"}

\* C1: a delivery makes at most two attempts; there is a second attempt only
\* if the first failed, fallbackMode is true and the preferred mode is not
\* popup, and the second attempt is showInPopup.
C1_AtMostTwoAttempts ==
  \A p \in Procs :
    /\ Len(attempts[p]) <= 2
    /\ Len(attempts[p]) = 2 =>
         /\ attempts[p][1].result = "Err"
         /\ settings[p].fallbackMode
         /\ settings[p].interactionMode # "popup"
         /\ attempts[p][1].mode # "popup"
         /\ attempts[p][2].mode = "popup"

C1_Witness ==
  \E p \in Procs : pc[p] = "done" /\ Len(attempts[p]) = 2

\* C2: with fallbackMode false a delivery makes exactly one attempt, whatever
\* the mode and whether the attempt succeeds or fails.
C2_NoFallbackOneAttempt ==
  \A p \in Procs :
    (Delivering(p) /\ ~settings[p].fallbackMode) => Len(attempts[p]) = 1

C2_Witness ==
  \E p \in Procs :
    /\ pc[p] = "done"
    /\ ~settings[p].fallbackMode
    /\ settings[p].interactionMode # "popup"
    /\ Len(attempts[p]) = 1
    /\ attempts[p][1].result = "Err"

\* C3: once showInPopup has been attempted, as the preferred mode or as the
\* fallback, the delivery starts no further attempt; a delivery whose
\* preferred mode is popup makes exactly one attempt.
C3_PopupIsLastAttempt ==
  \A p \in Procs :
    /\ \A i \in 1..Len(attempts[p]) :
         attempts[p][i].mode = "popup" => i = Len(attempts[p])
    /\ (Delivering(p) /\ settings[p].interactionMode = "popup") =>
         Len(attempts[p]) = 1

C3_Witness ==
  \E p \in Procs :
    /\ pc[p] = "done"
    /\ settings[p].interactionMode = "popup"
    /\ settings[p].fallbackMode
    /\ attempts[p] = <<Attempt("popup", "Err")>>

\* C4: with a preferred mode other than popup and fallbackMode true, every
\* failure of the first attempt is followed by exactly one further attempt,
\* by showInPopup.
C4_FailureFallsBackToPopup ==
  \A p \in Procs :
    (/\ Len(attempts[p]) >= 1
     /\ attempts[p][1].result = "Err"
     /\ settings[p].fallbackMode
     /\ settings[p].interactionMode # "popup") =>
      /\ Len(attempts[p]) = 2
      /\ attempts[p][2].mode = "popup"

C4_Witness ==
  \E p \in Procs :
    /\ Len(attempts[p]) = 2
    /\ attempts[p][1] = Attempt("offscreen", "Err")
    /\ ensureRet[p] \in {"true", "false"}
    /\ attempts[p][2].mode = "popup"

\* C5 as stated: no exception ever leaves handleShortlink.
C5_NeverThrows == \A p \in Procs : ~threw[p]

\* C5, amended: handleShortlink throws to the click handler exactly when the
\* last attempt of the delivery has failed (the preferred attempt with no
\* fallback to take, or the popup fallback); the click handler's catch block
\* is where the exception ends.
C5_ThrowsIffLastAttemptFailed ==
  \A p \in Procs :
    /\ threw[p] =>
         /\ attempts[p] # <<>>
         /\ attempts[p][Len(attempts[p])].result = "Err"
         /\ pc[p] \in {"catchGet", "done"}
    /\ (attempts[p] # <<>> /\ attempts[p][Len(attempts[p])].result = "Err") => threw[p]
    /\ (attempts[p] # <<>> /\ attempts[p][Len(attempts[p])].result = "Ok") => ~threw[p]

C5_Witness ==
  \E p \in Procs :
    /\ threw[p]
    /\ pc[p] = "done"
    /\ Len(attempts[p]) = 2
    /\ attempts[p][2].result = "Err"

\* C6: the attempts of a delivery are sequential: at most one is in progress,
\* the fallback exists only once the first attempt has its failure result,
\* and, when the first attempt created the offscreen document, only once its
\* closeDocument call has been made and has settled.
C6_AttemptsSequential ==
  \A p \in Procs :
    /\ Cardinality({i \in 1..Len(attempts[p]) : attempts[p][i].result = "running"}) <= 1
    /\ pc[p] \in FirstAttemptCalls =>
         Len(attempts[p]) = 1 /\ attempts[p][1].result = "running"
    /\ Len(attempts[p]) = 2 =>
         /\ attempts[p][1].result = "Err"
         /\ createdContext[p] => closeCalls[p] = 1 /\ closeResult[p] # None

C6_Witness ==
  \E p \in Procs :
    /\ Len(attempts[p]) = 2
    /\ attempts[p][2].result = "running"
    /\ createdContext[p]
    /\ closeResult[p] # None

C8_RaceLoserFails ==
  /\ \A p, q \in Procs :
       (p # q /\ pc[p] = "createResolves") => pc[q] # "createResolves"
  /\ \A q \in Procs :
       (createCalls[q] = 1 /\ pc[q] \notin {"createResolves", "createRejects"}) =>
          \/ ensureRet[q] = "true" /\ createdContext[q]
          \/ /\ ensureRet[q] = "threw"
             /\ attempts[q][1] = Attempt("offscreen", "Err")
             /\ ~createdContext[q]
             /\ closeCalls[q] = 0

C8_Witness ==
  \E p, q \in Procs :
    /\ p # q
    /\ observedNone[p] /\ observedNone[q]
    /\ pc[p] = "createResolves"
    /\ ensureRet[q] = "threw"
    /\ attempts[q][1] = Attempt("offscreen", "Err")

\* C9 as stated: of two ensureOffscreenDocument calls in immediate sequence,
\* the first returning true, the second returns false.
C9_TrueThenFalse == seqSecond \in {None, "false"}

\* C10 as stated: a delivery whose ensureOffscreenDocument returned false
\* calls closeDocument never; one whose call returned true has called it once
\* when its offscreen attempt ends, and the document is gone afterwards.
C10_OwnerClosesAndDocumentGone ==
  \A p \in Procs :
    /\ ensureRet[p] = "false" => closeCalls[p] = 0
    /\ (ensureRet[p] = "true" /\ attempts[p][1].result # "running") =>
         /\ closeCalls[p] = 1
         /\ closeResult[p] # None
         /\ p \notin docs

\* C10, amended: the same, the document being gone when the closeDocument
\* call resolved (a call the host rejects leaves it open).
C10_OwnerCloses ==
  \A p \in Procs :
    /\ ensureRet[p] = "false" => closeCalls[p] = 0
    /\ (ensureRet[p] = "true" /\ attempts[p][1].result # "running") =>
         /\ closeCalls[p] = 1
         /\ closeResult[p] # None
         /\ closeResult[p] = "closed" => p \notin docs
    /\ pc[p] = "closeResolves" => p \notin docs

C10_Witness ==
  \E p, q \in Procs :
    /\ p # q
    /\ ensureRet[p] = "true" /\ attempts[p][1].result = "Ok"
    /\ closeResult[p] = "closed"
    /\ ensureRet[q] = "false" /\ attempts[q][1].result = "Err"

\* No handler is between two awaited calls.
AllComplete == \A p \in Procs : ~InProgress(p)

\* Delivery p holds the document it created and has not yet asked the host
\* to close it.
Owns(p) ==
  /\ p \in docs
  /\ InProgress(p)
  /\ pc[p] = "createResolves" \/ (createdContext[p] /\ closeCalls[p] = 0)

\* C11 as stated: whenever all triggered deliveries have completed, no
\* offscreen document exists.
C11_NoDocumentLeftOpen == AllComplete => docs = {}

\* C11, amended: a document exists only while the delivery that created it
\* is in progress and has not yet closed it, unless the host rejected the
\* closeDocument call or the worker was torn down while the document was
\* open; such a document stays open.  Without either, no document exists
\* once all deliveries have completed.
C11_OpenOnlyWhileOwnedOrLeaked ==
  /\ (docs # {} /\ ~leaked) => \E p \in Procs : Owns(p)
  /\ leaked => docs # {}
  /\ (AllComplete /\ ~leaked) => docs = {}

C11_Witness ==
  /\ AllComplete
  /\ ~leaked
  /\ docs = {}
  /\ restarts = 1
  /\ \E p \in Procs : closeResult[p] = "closed" /\ attempts[p][1].result = "Err"

\* C12 as stated (Scenario A): a single delivery in offscreen mode that
\* found no document and whose clipboard write succeeded in the document
\* ends with the one attempt (offscreen, Ok), no popup window and no
\* offscreen document (the host serving the closeDocument call).
C12_ScenarioA ==
  \A p \in Procs :
    (/\ clicks = 1 /\ restarts = 0
     /\ pc[p] = "done"
     /\ settings[p].interactionMode = "offscreen"
     /\ observedNone[p] /\ ensureRet[p] = "true"
     /\ closeResult[p] # "rejected"
     /\ wrote[p]) =>
      /\ attempts[p] = <<Attempt("offscreen", "Ok")>>
      /\ windows[p] = None
      /\ docs = {}

\* C13 as stated: a sendMessage call that the offscreen document handled
\* settles with success = true exactly when the clipboard write of its text
\* succeeded (a write that succeeded is never answered with success = false
\* or with no response).
C13_ResponseReportsWrite ==
  \A p \in Procs :
    response[p].kind \notin {None, "rejected"} =>
      /\ wrote[p] <=> response[p].kind = "success"
      /\ response[p].text = shortUrl[p]

\* Delivery p awaits the response of a document that received its message
\* and has not settled the clipboard write.
AwaitsDocument(p) == pc[p] = "awaitResponse" /\ writing[p] # None

\* C14 as stated: no delivery waits forever; each one in progress reaches
\* the end of its handler.
C14_EveryDeliveryEnds ==
  \A p \in Procs : InProgress(p) ~> ~InProgress(p)

\* C14, amended: every host call of the background settling, a delivery in
\* progress reaches the end of its handler, is torn down with the worker, or
\* awaits the response of a document whose write has not settled; nothing
\* bounds that wait.  A message that gets no response (the listener returned
\* without answering, or the document was closed) fails the attempt at once.
C14_EndsOrAwaitsDocument ==
  \A p \in Procs : InProgress(p) ~> (~InProgress(p) \/ AwaitsDocument(p))

C14_Witness ==
  \E p \in Procs :
    /\ pc[p] = "done"
    /\ response[p].kind = "undefined"
    /\ Len(attempts[p]) = 2
    /\ attempts[p][1] = Attempt("offscreen", "Err")
    /\ attempts[p][2] = Attempt("popup", "Ok")

\* C15: when sendMessage yields no response (the document is gone, closed
\* before it answered, or its listener does not answer), the offscreen
\* attempt ends as a failure, the delivery that created the document still
\* calls closeDocument, and the fallback rule is the one of any failure; the
\* delivery throws only as that rule says.
C15_NoResponseIsOrdinaryFailure ==
  \A p \in Procs :
    response[p].kind \in {"undefined", "rejected"} =>
      /\ attempts[p][1].mode = "offscreen"
      /\ attempts[p][1].result # "Ok"
      /\ attempts[p][1].result = "running" <=> pc[p] \in {"closeResolves", "closeRejects"}
      /\ closeCalls[p] = (IF createdContext[p] THEN 1 ELSE 0)
      /\ attempts[p][1].result = "Err" =>
           IF FallbackTaken(settings[p])
           THEN Len(attempts[p]) = 2 /\ attempts[p][2].mode = "popup"
           ELSE Len(attempts[p]) = 1 /\ threw[p]
      /\ threw[p] => attempts[p][Len(attempts[p])].result = "Err"

C15_Witness ==
  \E p, q \in Procs :
    /\ offscreenScript = "part_000"
    /\ response[p].kind = "undefined"
    /\ ~createdContext[p]
    /\ closeResult[q] = "closed"
    /\ docs = {}
    /\ Len(attempts[p]) = 2

C17_UnsupportedHost ==
  \A p \in Procs :
    (/\ Delivering(p)
     /\ StrategyOf(settings[p].interactionMode) = "offscreen"
     /\ hostVersion = "pre109") =>
      /\ ensureRet[p] = "threw"
      /\ createCalls[p] = 0 /\ closeCalls[p] = 0
      /\ response[p] = NoResponseYet
      /\ ~offscreenDocumentCreated /\ docs = {}
      /\ attempts[p][1] = Attempt("offscreen", "Err")
      /\ IF settings[p].fallbackMode
         THEN /\ Len(attempts[p]) = 2
              /\ attempts[p][2].mode = "popup"
              /\ pc[p] \in {"storageSet", "windowsCreate", "done", "catchGet"}
         ELSE /\ Len(attempts[p]) = 1
              /\ threw[p]

C17_Witness ==
  \E p \in Procs :
    /\ hostVersion = "pre109"
    /\ settings[p].interactionMode = "offscreen"
    /\ pc[p] = "done"
    /\ attempts[p] = <<Attempt("offscreen", "Err"), Attempt("popup", "Ok")>>
    /\ windows[p] = "open"

LikeInjection(p) ==
  LET s == settings[p]
      a == attempts[p]
  IN /\ a # <<>>
     /\ a[1].mode = "injection"
     /\ createCalls[p] = 0 /\ ensureRet[p] = None /\ response[p] = NoResponseYet
     /\ a[1].result = "running" =>
          pc[p] = "executeScript" /\ Len(a) = 1 /\ notes[p] = <<>> /\ ~wrote[p]
     /\ a[1].result = "Ok" =>
          /\ Len(a) = 1 /\ pc[p] = "done"
          /\ wrote[p] /\ ~threw[p] /\ windows[p] = None
          /\ notes[p] = Notify(<<>>, s, "success")
     /\ a[1].result = "Err" =>
          /\ ~wrote[p]
          /\ IF s.fallbackMode
             THEN /\ Len(a) = 2
                  /\ a[2].mode = "popup"
                  /\ a[2].result = "Ok" =>
                       windows[p] = "open" /\ ~threw[p] /\ notes[p] = <<>>
                  /\ a[2].result = "Err" => windows[p] = None /\ threw[p]
             ELSE Len(a) = 1 /\ threw[p] /\ windows[p] = None
     /\ (threw[p] /\ pc[p] = "done") => notes[p] = Notify(<<>>, s, "error")

\* C19: a delivery whose stored interactionMode is none of offscreen,
\* injection, popup is a delivery by injection: the same first attempt,
\* success notification, fallback decision and outcome as with the stored
\* mode injection, for every fallbackMode and every strategy result.
C19_UnknownModeIsInjection ==
  \A p \in Procs :
    (Delivering(p) /\ settings[p].interactionMode \notin {"offscreen", "popup"})
      => LikeInjection(p)

C19_Witness ==
  \E p, q \in Procs :
    /\ settings[p].interactionMode = "clipboard"
    /\ settings[p].showNotifications
    /\ pc[p] = "done" /\ pc[q] = "done"
    /\ attempts[p] = <<Attempt("injection", "Ok")>>
    /\ notes[p] = <<"success">>
    /\ attempts[q] = <<Attempt("injection", "Err"), Attempt("popup", "Ok")>>

\* The shortlink request of trigger p has failed.
FetchFailed(p) ==
  /\ pc[p] \in {"catchGet", "done"}
  /\ settings[p].bitlyToken # ""
  /\ shortUrl[p] = None

\* C20: when the shortlink request fails, the trigger makes no delivery
\* attempt: it calls neither createDocument nor sendMessage, injects no
\* script, opens no window; with no other trigger, no document exists,
\* nothing is stored for the popup and the clipboard is untouched.
C20_NoDeliveryAfterFetchFailure ==
  \A p \in Procs :
    FetchFailed(p) =>
      /\ attempts[p] = <<>>
      /\ createCalls[p] = 0 /\ closeCalls[p] = 0 /\ ensureRet[p] = None
      /\ response[p] = NoResponseYet
      /\ ~wrote[p] /\ windows[p] = None /\ writing[p] = None
      /\ ~threw[p]
      /\ pc[p] = "done" => notes[p] = Notify(<<>>, StorageGet(sync, CatchDefaults), "error")
      /\ clicks = 1 =>
           /\ docs = {} /\ localStore = None /\ clipboard = None
           /\ ~offscreenDocumentCreated

C20_Witness ==
  \E p \in Procs :
    /\ FetchFailed(p)
    /\ pc[p] = "done"
    /\ clicks = 1
    /\ settings[p].interactionMode = "offscreen"
    /\ notes[p] = <<"error">>

\* The handler of trigger p has returned after a delivery whose last
\* attempt succeeded, or failed.
Succeeded(p) ==
  /\ pc[p] = "done"
  /\ attempts[p] # <<>>
  /\ attempts[p][Len(attempts[p])].result = "Ok"

NoSucceededMode(p) ==
  /\ pc[p] = "done"
  /\ attempts[p] # <<>>
  /\ attempts[p][Len(attempts[p])].result = "Err"

SucceededMode(p) == attempts[p][Len(attempts[p])].mode

\* C21 as stated: with notifications enabled, a delivery that ends with a
\* succeeded mode has shown a success notification, whichever the mode.
C21_SuccessAlwaysNotified ==
  \A p \in Procs :
    (Succeeded(p) /\ settings[p].showNotifications) => notes[p] = <<"success">>

\* C21, amended: with notifications enabled, a delivery that succeeded by
\* offscreen or by injection has shown exactly the success notification; one
\* that succeeded by popup, preferred or reached by fallback, has shown no
\* notification.
C21_SuccessNotifiedUnlessPopup ==
  \A p \in Procs :
    (Succeeded(p) /\ settings[p].showNotifications) =>
      notes[p] = (IF SucceededMode(p) = "popup" THEN <<>> ELSE <<"success">>)

C21_Witness ==
  \E p, q \in Procs :
    /\ Succeeded(p) /\ Succeeded(q)
    /\ settings[p].showNotifications
    /\ settings[p].interactionMode = "offscreen"
    /\ attempts[p] = <<Attempt("offscreen", "Ok")>> /\ notes[p] = <<"success">>
    /\ attempts[q] = <<Attempt("offscreen", "Err"), Attempt("popup", "Ok")>>
    /\ notes[q] = <<>>

\* C22: with notifications enabled, a trigger whose delivery ends with no
\* succeeded mode has shown exactly one error notification, after one failed
\* attempt and after two.
C22_OneFailureNotification ==
  \A p \in Procs :
    (NoSucceededMode(p) /\ settings[p].showNotifications) =>
      /\ threw[p]
      /\ notes[p] = <<"error">>

C22_Witness ==
  \E p \in Procs :
    /\ NoSucceededMode(p)
    /\ settings[p].showNotifications
    /\ Len(attempts[p]) = 2
    /\ attempts[p][1].result = "Err"
    /\ notes[p] = <<"error">>

\* C23: a trigger opens the options page exactly when the token it read is
\* empty; it then makes no shortlink request and no delivery attempt; a
\* trigger with a token never opens it, whatever fails.
C23_OptionsOnlyForMissingToken ==
  \A p \in Procs :
    pc[p] \notin {"idle", "tornDown"} =>
      /\ optionsOpened[p] <=> settings[p].bitlyToken = ""
      /\ optionsOpened[p] =>
           /\ pc[p] = "done"
           /\ shortUrl[p] = None /\ attempts[p] = <<>> /\ ~threw[p]
           /\ createCalls[p] = 0 /\ ~wrote[p] /\ windows[p] = None
           /\ notes[p] = Notify(<<>>, settings[p], "token")

C23_Witness == \E p \in Procs : optionsOpened[p] /\ notes[p] = <<"token">>

\* The showNotifications setting as every read of the store returns it.
NotificationsOff == ~StorageGet(sync, SettingsDefaults).showNotifications

C25_ErrorsShownWhenOff ==
  \A p \in Procs :
    (NotificationsOff /\ pc[p] = "done") =>
      /\ (FetchFailed(p) \/ threw[p]) => notes[p] = <<"error">>
      /\ Succeeded(p) => notes[p] = <<>>

\* Trigger p has shown the success notification.
SuccessShown(p) == \E i \in 1 .. Len(notes[p]) : notes[p][i] = "success"

\* C26: a trigger has shown the success notification only if the clipboard
\* write of its own first attempt was made and reported successful: the
\* injected function returned success, or the offscreen response to its own
\* message carried success = true. A failed, rejected or unanswered write
\* shows none.
C26_SuccessOnlyAfterReportedWrite ==
  \A p \in Procs :
    /\ SuccessShown(p) =>
         /\ Len(attempts[p]) = 1
         /\ attempts[p][1].result # "Err"
         /\ pc[p] = "done" => attempts[p][1].result = "Ok"
         /\ attempts[p][1].mode \in {"offscreen", "injection"}
         /\ wrote[p] /\ ~threw[p]
         /\ attempts[p][1].mode = "offscreen" =>
              response[p] = Response("success", shortUrl[p])
    /\ response[p].kind \in {"failure", "undefined", "rejected"} => ~SuccessShown(p)

C26_Witness ==
  \E p, q \in Procs :
    /\ notes[p] = <<"success">>
    /\ response[p] = Response("success", shortUrl[p])
    /\ settings[q].showNotifications
    /\ response[q].kind = "undefined" /\ pc[q] = "done" /\ notes[q] # <<"success">>

\* The popup attempt of trigger p, when it has settled with result r.
PopupAttemptIs(p, r) ==
  \E i \in 1 .. Len(attempts[p]) : attempts[p][i] = Attempt("popup", r)

\* C27 as stated: a popup attempt fails only when the host refuses to create
\* the window, so a failed popup attempt had its text stored and had reached
\* windows.create.
C27_OnlyWindowRefusalFails ==
  \A p \in Procs : PopupAttemptIs(p, "Err") => stored[p]

\* C27, amended: a popup attempt succeeds exactly when the storage write and
\* the window creation both resolved; it fails when either was rejected, and
\* then no window is open.
C27_PopupFailsOnEitherStep ==
  \A p \in Procs :
    /\ PopupAttemptIs(p, "Ok") <=> windows[p] = "open"
    /\ PopupAttemptIs(p, "Ok") => stored[p]
    /\ PopupAttemptIs(p, "Err") => windows[p] = None

C27_Witness ==
  \E p, q \in Procs :
    /\ PopupAttemptIs(p, "Err") /\ ~stored[p] /\ pc[p] = "done" /\ threw[p]
    /\ PopupAttemptIs(q, "Err") /\ stored[q] /\ pc[q] = "done"

\* C28: showInPopup reaches windows.create only after its storage.local.set
\* has resolved: while the window creation is pending, and whenever the
\* delivery's window is open, the delivery's write of currentShortlink has
\* completed.
C28_StoredBeforeWindow ==
  \A p \in Procs :
    (pc[p] = "windowsCreate" \/ windows[p] = "open") => stored[p]

C28_Witness ==
  \E p \in Procs :
    /\ windows[p] = "open" /\ stored[p] /\ localStore = shortUrl[p]
    /\ Len(attempts[p]) = 2

ReuserWaits(p) ==
  /\ ensureRet[p] = "false"
  /\ pc[p] = "awaitResponse"

\* C30: while a delivery that reused the offscreen document waits for the
\* response to its message, the document exists: no other delivery's
\* closeDocument has taken effect.
C30_NoCloseUnderReuser ==
  \A p \in Procs : ReuserWaits(p) => docs # {}

\* A createDocument or closeDocument call of some delivery has been issued
\* and its continuation has not run.
CallInProgress ==
  \E p \in Procs :
    pc[p] \in {"createResolves", "createRejects", "closeResolves", "closeRejects"}

\* C31 as stated: on a host without getContexts, whenever no create or close
\* call is in progress, offscreenDocumentCreated is true exactly when the
\* offscreen document exists, also after a restart of the service worker and
\* after a rejected closeDocument call.
C31_FlagTracksDocument ==
  (hostVersion # "v116" /\ ~CallInProgress) =>
    (offscreenDocumentCreated <=> docs # {})

\* C31, amended: on a host without getContexts, whenever no create or close
\* call is in progress, the flag is true exactly when the document exists,
\* as long as no service-worker restart and no rejected closeDocument call has
\* left a document open; after either, the flag is false while the document
\* exists.
C31_FlagTracksUnlessLeaked ==
  (hostVersion # "v116" /\ ~CallInProgress) =>
    IF leaked
    THEN ~offscreenDocumentCreated /\ docs # {}
    ELSE offscreenDocumentCreated <=> docs # {}

C31_Witness ==
  /\ hostVersion = "v109" /\ ~CallInProgress /\ leaked /\ restarts = 0
  /\ ~offscreenDocumentCreated /\ docs # {}

\* The createDocument call of delivery p was refused and
\* ensureOffscreenDocument threw.
CreateFailed(p) == createCalls[p] > 0 /\ ensureRet[p] = "threw"

\* C32: a delivery whose createDocument call failed has called closeDocument
\* never and does not own a document; the step that handles the rejection
\* leaves the flag and the document as they are.
C32_FailedCreateTouchesNothing ==
  /\ [](\A p \in Procs :
          CreateFailed(p) =>
            closeCalls[p] = 0 /\ ~createdContext[p] /\ closeResult[p] = None)
  /\ [][\A p \in Procs :
          (pc[p] = "createRejects" /\ pc'[p] \notin {"createRejects", "tornDown"}) =>
            /\ offscreenDocumentCreated' = offscreenDocumentCreated
            /\ docs' = docs
            /\ closeCalls'[p] = 0]_vars

C32_Witness ==
  \E p, q \in Procs :
    /\ CreateFailed(p) /\ pc[p] = "done" /\ closeCalls[p] = 0
    /\ q \in docs /\ offscreenDocumentCreated /\ pc[q] = "awaitResponse"

\* C33: no trigger both has its text written to the clipboard, by the
\* offscreen document or by the page, and has the popup window opened (here
\* for the triggers whose closeDocument call, if any, was served).
C33_NoDoubleDelivery ==
  \A p \in Procs :
    closeResult[p] # "rejected" => ~(wrote[p] /\ windows[p] = "open")

\* C37: from the shortener's answer to the end of the handler the text and
\* the settings of a trigger do not change; the text the offscreen document
\* is asked to write, the text the page writes and the text showInPopup
\* stores are that text.
C37_OneTextPerDelivery ==
  /\ [](\A p \in Procs :
          (InProgress(p) /\ writing[p] # None) => writing[p] = shortUrl[p])
  /\ [][\A p \in Procs :
          /\ (shortUrl[p] # None /\ pc'[p] \notin {"idle", "tornDown"}) =>
               shortUrl'[p] = shortUrl[p] /\ settings'[p] = settings[p]
          /\ (~stored[p] /\ stored'[p]) => localStore' = shortUrl[p]
          /\ (InProgress(p) /\ ~wrote[p] /\ wrote'[p]) =>
               clipboard' = shortUrl[p]]_vars

C37_Witness ==
  \E p \in Procs :
    /\ response[p] = Response("failure", shortUrl[p])
    /\ attempts[p] = <<Attempt("offscreen", "Err"), Attempt("popup", "running")>>
    /\ stored[p] /\ localStore = shortUrl[p]
    /\ \E q \in Procs : shortUrl[q] \notin {None, shortUrl[p]}

\* C38: a trigger shows at most one notification: the success, the
\* missing-token or the error notification, and never two of them, also when
\* the delivery succeeded and its closeDocument call was rejected.
C38_AtMostOneNotification ==
  \A p \in Procs :
    /\ Len(notes[p]) <= 1
    /\ SuccessShown(p) => ~threw[p]

C38_Witness ==
  \E p \in Procs :
    /\ pc[p] = "done"
    /\ closeResult[p] = "rejected"
    /\ notes[p] = <<"success">>

\* The page has finished loading: it displays a text or an error.
Displays(w) == popup[w].pc = "shown"

\* C34: a popup window that a delivery opened displays, once loaded, the
\* text of that delivery (here with no popup opened by the user and no
\* restart of the worker).
C34_PopupShowsItsDelivery ==
  (popup["user"].pc = "closed" /\ restarts = 0) =>
    \A p \in Procs : Displays(p) => popup[p].shown = shortUrl[p]

\* C35: a popup load that found a currentShortlink displays it and sends no
\* request; a load that found none has sent exactly one request; no two
\* popup loads display the value of the same storage write (here for the
\* windows that deliveries opened, with no popup opened by the user).
C35_LoadConsumesStoredValue ==
  popup["user"].pc = "closed" =>
    /\ \A w \in Pages :
         /\ popup[w].read # None =>
              /\ popup[w].sent = 0
              /\ Displays(w) => popup[w].shown = popup[w].read
         /\ (popup[w].read = None /\ popup[w].pc \notin {"closed", "get"}) =>
              popup[w].sent = 1
    /\ \A w, x \in Pages :
         (w # x /\ Displays(w) /\ Displays(x) /\ popup[w].readNo # 0) =>
           popup[w].readNo # popup[x].readNo

\* C36: the createShortlinkFromPopup handler has called sendResponse never
\* while it runs and exactly once when it has ended; success = true carries
\* the shortlink it obtained; none of its steps touches the clipboard, the
\* offscreen document, a window, the local storage or a delivery.
C36_HandlerAnswersOnce ==
  /\ [](\A w \in Pages :
          /\ popup[w].answers <= 1
          /\ HandlerRuns(w) => popup[w].answers = 0
          /\ (popup[w].sent = 1 /\ ~HandlerRuns(w) /\ popup[w].resp.kind # "undefined")
               => popup[w].answers = 1
          /\ popup[w].resp.kind = "success" => popup[w].resp.text \in Links
          /\ popup[w].sent = 0 => popup[w].answers = 0)
  /\ [][\A w \in Pages :
          (HandlerRuns(w) /\ popup'[w] # popup[w] /\ restarts' = restarts) =>
            UNCHANGED <<clipboard, docs, windows, localStore, writing, pc,
                        attempts, createCalls, notes>>]_vars

C36_Witness ==
  \E w, x \in Pages :
    /\ Displays(w) /\ popup[w].answers = 1
    /\ popup[w].resp.kind = "success" /\ popup[w].shown \in Links
    /\ Displays(x) /\ popup[x].answers = 1
    /\ popup[x].resp.kind = "failure" /\ popup[x].shown = "error"

=============================================================================
